---- MODULE Spec2Model ----
(***************************************************************************)
(* Model of the temporary expression engine of ETL                         *)
(* (include/etl/expr/temporary_expr.hpp): temporary_unary_expr and         *)
(* temporary_binary_expr, their constructors, allocate_temporary(),        *)
(* evaluate(), direct_evaluate(), result() and the readers of              *)
(* temporary_expr that go through result().                                *)
(*                                                                         *)
(* One behaviour follows one expression (the instance built by a           *)
(* constructor) and the instances copy- or move-constructed from it.       *)
(* cpp_assert is modelled as enabled (debug build): a failed assertion     *)
(* ends the program (fault = "assert").  Dereferencing an empty            *)
(* shared_ptr is undefined behaviour: the run ends with fault = "ub" and   *)
(* the flag that the interrupted call would have written is left           *)
(* unconstrained.                                                          *)
(*                                                                         *)
(* The repeat transformers (rep_r_transformer, rep_l_transformer and their *)
(* dynamic variants) are modelled by a second specification, RepSpec: one  *)
(* behaviour builds one transformer over one sub-expression and reads it.  *)
(* The etl_traits of the temporary expressions and of the transformers are *)
(* modelled by TraitSpec: one behaviour fixes the traits of the operand     *)
(* types and asks for traits of the composed type.  CudnnSpec follows one  *)
(* call of impl::cudnn::max_pool_2d::apply statement by statement.         *)
(* The variables of the part a specification does not follow stay at       *)
(* their idle values.  DeepSpec follows the overload resolution of one     *)
(* call of max_pool_2d::apply over inputs of every rank, SparseSpec one    *)
(* sparse_matrix through set, erase and reference assignments, ConfigSpec  *)
(* one compilation of the configuration flags, and OwnSpec the             *)
(* cudnn_wrapper and cudnn_handle objects and the raw cuDNN resources      *)
(* they hold.  AliasSpec asks alias() between the calls that change an     *)
(* instance.                                                               *)
(***************************************************************************)
EXTENDS Integers, Naturals, Sequences, FiniteSets, TLC

\* ------------------------------------------------------------------ bounds
MaxInst == 2      \* instances: the constructed one and its copies / moves
NumElems == 2     \* number of elements of every operand and result

Inst == 1..MaxInst
Idx == 1..NumElems
Values == 0..NumElems

\* The operands an expression is built over: two left and two right ones.
OperandsA == {[k \in Idx |-> k % 2], [k \in Idx |-> 1]}
OperandsB == {[k \in Idx |-> 0], [k \in Idx |-> k]}
NoOperand == << >>               \* a unary expression has no _b

\* ------------------------------------------------------------------ storage
Null == 0                       \* empty shared_ptr / no storage
DestC == 1                      \* caller storage handed to the forced constructor
DestR == 2                      \* caller storage handed to direct_evaluate
CallerSlots == {DestC, DestR}
Slots == 1..(MaxInst + 2)
Stale == [k \in Idx |-> 0 - 1]  \* contents never produced by Op::apply
NoStorage == << >>              \* a slot that holds no object
NoRet == 0 - 2                  \* an operation that returns nothing
Contents == [Idx -> (0 - 1)..(2 * NumElems)]

Modes == {"unforced", "forced_ref", "forced_val"}
Kinds == {"unary", "binary"}
Accessors == {"operator[]", "read_flat", "operator()", "memory_start", "memory_end"}

VARIABLES
    kind,       \* temporary_unary_expr or temporary_binary_expr
    mode,       \* Forced = void / a reference type / a value type
    a,          \* _a: contents of the (left) operand
    b,          \* _b: contents of the right operand (binary only)
    n,          \* instances 1..n have been constructed
    c,          \* _c of every instance: a storage handle, Null when empty
    allocated,  \* the allocated flag of every instance
    evaluated,  \* the evaluated flag of every instance
    heap,       \* contents of every storage
    fault,      \* "none", "assert" (cpp_assert failed) or "ub"
    last,       \* the last call: operation, instance, what it returned or wrote
    origin,     \* how every instance was constructed, from which, with which _c
    movedFrom,  \* instances that were the source of a move-construction
    applyCount, \* number of Op::apply writes evaluate() made into every storage
    applied,    \* number of Op::apply calls made by evaluate() of every instance
    allocCount  \* number of Op::allocate calls

\* The repeat transformers.
VARIABLES
    tkind,      \* rep_r_transformer, rep_l_transformer or a dynamic variant
    sub,        \* the sub-expression: its dimensions and its elements
    reps,       \* the repeat counts: D... (static) or the member reps (dynamic)
    rep_m,      \* the member m of a dynamic transformer: the repeated size
    got         \* the last read: its arguments, what was read from sub, the value

\* The etl_traits specialisations.
VARIABLES
    node,       \* the expression type the traits are asked of
    ta,         \* etl_traits of its (left) operand type a_t / sub_expr_t
    tb,         \* etl_traits of its right operand type b_t (binary only)
    trait       \* the last trait asked: its name, vector mode and value

\* One call of max_pool_2d::apply(x, y, ...).
VARIABLES
    pc,         \* the statement of apply that runs next
    status,     \* the cudnnStatus_t the last cuDNN call returned
    cerr,       \* std::cerr: the calls reported by cudnn_check, in order
    handle,     \* the cudnn_handle of start_cudnn()
    desc,       \* the descriptors pooling_desc, x_tensor, y_tensor
    xg,         \* the input x: validity of its CPU and GPU memory
    yg,         \* the output y: validity of its CPU and GPU memory, GPU contents
    crash       \* the call ended in a crash (use of an indeterminate descriptor)

\* The overloads of max_pool_2d::apply.
VARIABLES
    xdims,      \* the dimensions of the input x of the call
    overload,   \* the overload the call resolves to
    pooled      \* the slices handed to cudnnPoolingForward, in order

\* One sparse_matrix.
VARIABLES
    sm,         \* its dimensions and its stored (non-zero) entries
    smop        \* the last operation on it: its name, cell and value

\* The configuration section.
VARIABLES
    defs,       \* the macros defined when the section is compiled
    cfg         \* the configuration flags it declares

\* The cudnn_wrapper and cudnn_handle objects of the program.
VARIABLES
    objs,       \* the objects constructed so far, in order of construction
    raw,        \* the raw cuDNN descriptors and handles created so far
    wild        \* a cudnnDestroy* call was made on a value that is no raw object

exprVars == <<kind, mode, a, b, n, c, allocated, evaluated, heap, fault, last,
              origin, movedFrom, applyCount, applied, allocCount>>
repVars == <<tkind, sub, reps, rep_m, got>>
traitVars == <<node, ta, tb, trait>>
cudnnVars == <<pc, status, cerr, handle, desc, xg, yg, crash>>
deepVars == <<xdims, overload, pooled>>
sparseVars == <<sm, smop>>
configVars == <<defs, cfg>>
ownVars == <<objs, raw, wild>>
\* the parts added to the four above
moreVars == <<deepVars, sparseVars, configVars, ownVars>>
\* what each part leaves alone
otherVars == <<repVars, traitVars, cudnnVars, moreVars>>
repRest == <<exprVars, traitVars, cudnnVars, moreVars>>
traitRest == <<exprVars, repVars, cudnnVars, moreVars>>
cudnnRest == <<exprVars, repVars, traitVars, moreVars>>
vars == <<exprVars, repVars, traitVars, cudnnVars, moreVars>>

\* No transformer is built.
NoRead == [op |-> "none", at |-> 0, args |-> << >>, from |-> 0, coords |-> << >>, val |-> 0]
RepIdle ==
    /\ tkind = "none" /\ sub = [dims |-> << >>, order |-> "none", data |-> << >>]
    /\ reps = << >> /\ rep_m = 0 /\ got = NoRead

\* No trait is asked.
NoTraits == << >>
NoTrait == [name |-> "none", V |-> "none", flag |-> FALSE, order |-> "none"]
TraitIdle == node = "none" /\ ta = NoTraits /\ tb = NoTraits /\ trait = NoTrait

\* max_pool_2d::apply is not called.
CudnnIdle ==
    /\ pc = "idle" /\ status = "none" /\ cerr = << >> /\ handle = "none"
    /\ desc = << >> /\ xg = << >> /\ yg = << >> /\ crash = FALSE

\* No call of max_pool_2d::apply is resolved.
DeepIdle == xdims = << >> /\ overload = "idle" /\ pooled = << >>

\* No sparse_matrix is built.
NoSparseOp == [op |-> "none", i |-> 0, j |-> 0, v |-> 0]
SparseIdle == sm = << >> /\ smop = NoSparseOp

\* The configuration section is not compiled.
NoConfig == << >>
ConfigIdle == defs = {} /\ cfg = NoConfig

\* No wrapper and no handle is constructed.
OwnIdle == objs = << >> /\ raw = << >> /\ wild = FALSE

\* The parts added to the four above are idle.
MoreIdle == DeepIdle /\ SparseIdle /\ ConfigIdle /\ OwnIdle

is_not_forced == mode = "unforced"

FreeSlots == {s \in Slots \ CallerSlots : heap[s] = NoStorage}
NewSlot == CHOOSE s \in FreeSlots : \A t \in FreeSlots : s <= t

\* Op::apply: the operator's pure function of the operands.
OpApply(k, x, y) ==
    IF k = "unary" THEN [i \in Idx |-> x[i] + 1]
    ELSE [i \in Idx |-> x[i] + y[i]]

Call(op, i, ret) == [op |-> op, inst |-> i, ret |-> ret]
\* A constructor call is observed through origin.
NoCall == Call("none", 0, NoRet)
\* A completed call is observed with the storage it wrote or returned (Null:
\* none), a failed one with NoRet.
Done(op, i, f, s) == IF f = "none" THEN Call(op, i, s) ELSE Call(op, i, NoRet)

Bump(cnt, s) == [cnt EXCEPT ![s] = @ + 1]

\* ------------------------------------------------------------ constructors
\* The storages a caller can pass to direct_evaluate: its own result and,
\* when the expression was given a destination type, that destination.
Destinations == IF is_not_forced THEN {DestR} ELSE CallerSlots

NoOrigin == [how |-> "none", from |-> 0, had |-> FALSE]

\* temporary_*_expr(a [, b]) and temporary_*_expr(a [, b], c).
\* dest = TRUE is the constructor that takes the destination c.
Construct(k, m, x, y, dest) ==
    /\ kind = k /\ mode = m /\ a = x /\ b = y
    /\ n = 1
    /\ c = [i \in Inst |-> IF i # 1 \/ m = "unforced" THEN Null
                           ELSE IF m = "forced_ref" THEN DestC ELSE 3]
    /\ allocated = [i \in Inst |-> i = 1 /\ dest]
    /\ evaluated = [i \in Inst |-> FALSE]
    /\ heap = [s \in Slots |-> IF s \in CallerSlots \/ (s = 3 /\ m = "forced_val")
                               THEN Stale ELSE NoStorage]
    /\ origin = [i \in Inst |-> IF i = 1
                                THEN [how |-> IF dest THEN "ctor_dest" ELSE "ctor",
                                      from |-> 0, had |-> dest]
                                ELSE NoOrigin]

Init ==
    /\ \E k \in Kinds, m \in Modes, x \in OperandsA, y \in OperandsB \cup {NoOperand},
          dest \in BOOLEAN :
          /\ k = "unary" <=> y = NoOperand
          /\ m = "unforced" => ~dest
          /\ m = "forced_ref" => dest
          /\ Construct(k, m, x, y, dest)
    /\ fault = "none"
    /\ last = NoCall
    /\ movedFrom = {}
    /\ applyCount = [s \in Slots |-> 0]
    /\ applied = [i \in Inst |-> 0]
    /\ allocCount = 0
    /\ RepIdle /\ TraitIdle /\ CudnnIdle /\ MoreIdle

\* optional_move<is_not_forced>(e._c): the storage the new instance gets
\* (dst) and what is left in the source (src).
optional_move(flag, ci) ==
    IF flag THEN [dst |-> ci, src |-> Null] ELSE [dst |-> ci, src |-> ci]

\* Initialising a data_type from another one: a shared_ptr or a reference
\* refers to the same storage, a value is a new object with the same contents.
NeedsSlot == mode = "forced_val"
\* (a constructor that leaves _c out of its initialiser list)
InitC_drop(h, ci) == [slot |-> Null, heap |-> h]
InitC(h, ci) ==
    IF NeedsSlot THEN [slot |-> NewSlot, heap |-> [h EXCEPT ![NewSlot] = h[ci]]]
    ELSE [slot |-> ci, heap |-> h]

\* Copy constructor: instance n+1 is built from e.
Copy(e) ==
    /\ fault = "none" /\ e \in 1..n /\ n < MaxInst
    /\ NeedsSlot => FreeSlots # {}
    /\ LET j == n + 1
           nc == InitC(heap, c[e])
       IN /\ n' = j
          /\ c' = [c EXCEPT ![j] = nc.slot]
          /\ heap' = nc.heap
          /\ allocated' = [allocated EXCEPT ![j] = allocated[e]]
          /\ evaluated' = [evaluated EXCEPT ![j] = evaluated[e]]
          /\ origin' = [origin EXCEPT ![j] = [how |-> "copy", from |-> e, had |-> c[e] # Null]]
          /\ last' = NoCall
    /\ UNCHANGED <<kind, mode, a, b, fault, movedFrom, applyCount, applied, allocCount>>
    /\ UNCHANGED otherVars

\* The flags the move constructor leaves in its argument e: e.evaluated = false.
\* (a move constructor without the reset)
moved_from_keep(e) == [allocated |-> allocated[e], evaluated |-> evaluated[e]]
\* (a move constructor that resets both flags)
moved_from_reset_all(e) == [allocated |-> FALSE, evaluated |-> FALSE]
moved_from(e) == [allocated |-> allocated[e], evaluated |-> FALSE]

\* Move constructor: instance n+1 is built from e.
Move(e) ==
    /\ fault = "none" /\ e \in 1..n /\ n < MaxInst
    /\ NeedsSlot => FreeSlots # {}
    /\ LET j == n + 1
           om == optional_move(is_not_forced, c[e])
           nc == InitC(heap, om.dst)
       IN /\ n' = j
          /\ c' = [c EXCEPT ![j] = nc.slot, ![e] = om.src]
          /\ heap' = nc.heap
          /\ allocated' = [allocated EXCEPT ![j] = allocated[e], ![e] = moved_from(e).allocated]
          /\ evaluated' = [evaluated EXCEPT ![j] = evaluated[e], ![e] = moved_from(e).evaluated]
          /\ origin' = [origin EXCEPT ![j] = [how |-> "move", from |-> e, had |-> c[e] # Null]]
          /\ last' = NoCall
    /\ movedFrom' = movedFrom \cup {e}
    /\ UNCHANGED <<kind, mode, a, b, fault, applyCount, applied, allocCount>>
    /\ UNCHANGED otherVars

\* ------------------------------------------------------------- operations
\* result(): the two assertions, then get_result_op::apply(_c).
\* (result() without the assertion on evaluated)
result_unchecked(ev, al, ci) ==
    IF ~al THEN [fault |-> "assert", storage |-> Null]
    ELSE IF ci = Null THEN [fault |-> "ub", storage |-> Null]
    ELSE [fault |-> "none", storage |-> ci]
result(ev, al, ci) ==
    IF ~ev THEN [fault |-> "assert", storage |-> Null]
    ELSE IF ~al THEN [fault |-> "assert", storage |-> Null]
    ELSE IF ci = Null THEN [fault |-> "ub", storage |-> Null]
    ELSE [fault |-> "none", storage |-> ci]

\* evaluate(): the outcomes of one call on instance i, as the new heap, the
\* new evaluated flag of i and the storage its Op::apply wrote (Null: none).
Applied(i) == [fault |-> "none", heap |-> [heap EXCEPT ![c[i]] = OpApply(kind, a, b)],
               ev |-> TRUE, wrote |-> c[i]]
\* (evaluate() that does not set evaluated)
evaluate_noflag(i) ==
    IF evaluated[i]
    THEN {[fault |-> "none", heap |-> heap, ev |-> TRUE, wrote |-> Null]}
    ELSE IF ~allocated[i]
    THEN {[fault |-> "assert", heap |-> heap, ev |-> FALSE, wrote |-> Null]}
    ELSE IF c[i] = Null
    THEN {[fault |-> "ub", heap |-> heap, ev |-> e, wrote |-> Null] : e \in BOOLEAN}
    ELSE {[Applied(i) EXCEPT !.ev = FALSE]}
\* (evaluate() without the test of evaluated)
evaluate_unguarded(i) ==
    IF ~allocated[i]
    THEN {[fault |-> "assert", heap |-> heap, ev |-> evaluated[i], wrote |-> Null]}
    ELSE IF c[i] = Null
    THEN {[fault |-> "ub", heap |-> heap, ev |-> e, wrote |-> Null] : e \in BOOLEAN}
    ELSE {Applied(i)}
\* (evaluate() without the assertion on allocated)
evaluate_noassert(i) ==
    IF evaluated[i]
    THEN {[fault |-> "none", heap |-> heap, ev |-> TRUE, wrote |-> Null]}
    ELSE IF c[i] = Null
    THEN {[fault |-> "ub", heap |-> heap, ev |-> e, wrote |-> Null] : e \in BOOLEAN}
    ELSE {Applied(i)}
evaluate(i) ==
    IF evaluated[i]
    THEN {[fault |-> "none", heap |-> heap, ev |-> TRUE, wrote |-> Null]}
    ELSE IF ~allocated[i]
    THEN {[fault |-> "assert", heap |-> heap, ev |-> FALSE, wrote |-> Null]}
    ELSE IF c[i] = Null
    THEN {[fault |-> "ub", heap |-> heap, ev |-> e, wrote |-> Null] : e \in BOOLEAN}
    ELSE {Applied(i)}

Evaluate(i) ==
    /\ fault = "none" /\ i \in 1..n
    /\ \E o \in evaluate(i) :
          /\ fault' = o.fault
          /\ heap' = o.heap
          /\ evaluated' = [evaluated EXCEPT ![i] = o.ev]
          /\ applyCount' = IF o.wrote = Null THEN applyCount ELSE Bump(applyCount, o.wrote)
          /\ applied' = IF o.wrote = Null THEN applied ELSE Bump(applied, i)
          /\ last' = Done("evaluate", i, o.fault, o.wrote)
    /\ UNCHANGED <<kind, mode, a, b, n, c, allocated, origin, movedFrom, allocCount>>
    /\ UNCHANGED otherVars

\* direct_evaluate(r), Forced != void: evaluate(); r = result();
\* (direct_evaluate that evaluates but does not assign r)
direct_evaluate_forced_nocopy(i, r) == evaluate(i)
direct_evaluate_forced(i, r) ==
    {IF o.fault # "none" THEN o
     ELSE LET res == result(o.ev, allocated[i], c[i])
          IN IF res.fault # "none"
             THEN [fault |-> res.fault, heap |-> o.heap, ev |-> o.ev, wrote |-> o.wrote]
             ELSE [fault |-> "none", heap |-> [o.heap EXCEPT ![r] = o.heap[res.storage]],
                   ev |-> o.ev, wrote |-> o.wrote]
     : o \in evaluate(i)}

\* direct_evaluate(result), Forced = void: Op::apply(_a [, _b], result);
\* evaluate() is not called.
direct_evaluate_unforced(i, r) ==
    {[fault |-> "none", heap |-> [heap EXCEPT ![r] = OpApply(kind, a, b)],
      ev |-> evaluated[i], wrote |-> Null]}

\* (the two overloads with their enabling conditions exchanged)
direct_evaluate_swapped(i, r) ==
    IF is_not_forced THEN direct_evaluate_forced(i, r) ELSE direct_evaluate_unforced(i, r)
direct_evaluate(i, r) ==
    IF is_not_forced THEN direct_evaluate_unforced(i, r) ELSE direct_evaluate_forced(i, r)

DirectEvaluate(i, r) ==
    /\ fault = "none" /\ i \in 1..n /\ r \in Destinations
    /\ \E o \in direct_evaluate(i, r) :
          /\ fault' = o.fault
          /\ heap' = o.heap
          /\ evaluated' = [evaluated EXCEPT ![i] = o.ev]
          /\ applyCount' = IF o.wrote = Null THEN applyCount ELSE Bump(applyCount, o.wrote)
          /\ applied' = IF o.wrote = Null THEN applied ELSE Bump(applied, i)
          /\ last' = Done("direct_evaluate", i, o.fault, r)
    /\ UNCHANGED <<kind, mode, a, b, n, c, allocated, origin, movedFrom, allocCount>>
    /\ UNCHANGED otherVars

\* allocate_temporary(): whether the call resets _c to Op::allocate(_a [, _b]).
\* (allocate_temporary() that sets the flag and allocates nothing)
allocate_temporary_flag_only(i) == FALSE
\* (allocate_temporary() without the test of _c)
allocate_temporary_always(i) == is_not_forced
allocate_temporary(i) ==
    IF ~is_not_forced THEN FALSE ELSE c[i] = Null

AllocateTemporary(i) ==
    /\ fault = "none" /\ i \in 1..n
    /\ LET fresh == allocate_temporary(i)
       IN /\ fresh => FreeSlots # {}
          /\ c' = IF fresh THEN [c EXCEPT ![i] = NewSlot] ELSE c
          /\ heap' = IF fresh THEN [heap EXCEPT ![NewSlot] = Stale] ELSE heap
          /\ allocCount' = IF fresh THEN allocCount + 1 ELSE allocCount
          /\ last' = Call("allocate_temporary", i, IF fresh THEN NewSlot ELSE Null)
    /\ allocated' = [allocated EXCEPT ![i] = TRUE]
    /\ UNCHANGED <<kind, mode, a, b, n, evaluated, fault, origin, movedFrom, applyCount, applied>>
    /\ UNCHANGED otherVars

\* gpu_delegate_valid(): evaluated && allocated
gpu_delegate_valid(i) == evaluated[i] /\ allocated[i]

\* result() called by the user.
Result(i) ==
    /\ fault = "none" /\ i \in 1..n
    /\ LET res == result(evaluated[i], allocated[i], c[i])
       IN /\ fault' = res.fault
          /\ last' = Call("result", i, IF res.fault = "none" THEN res.storage ELSE NoRet)
    /\ UNCHANGED <<kind, mode, a, b, n, c, allocated, evaluated, heap, origin, movedFrom,
                   applyCount, applied, allocCount>>
    /\ UNCHANGED otherVars

\* temporary_expr::operator[], read_flat, operator(), memory_start, memory_end:
\* each is as_derived().result() followed by the access on that storage.
\* A successful reader leaves the observation of its result() call (the storage
\* the access is made on); a failed one is recorded under its own name.
Read(i, acc) ==
    /\ fault = "none" /\ i \in 1..n /\ acc \in Accessors
    /\ LET res == result(evaluated[i], allocated[i], c[i])
       IN /\ fault' = res.fault
          /\ last' = IF res.fault = "none" THEN Call("result", i, res.storage)
                     ELSE Call(acc, i, NoRet)
    /\ UNCHANGED <<kind, mode, a, b, n, c, allocated, evaluated, heap, origin, movedFrom,
                   applyCount, applied, allocCount>>
    /\ UNCHANGED otherVars

\* ------------------------------------------------------------------- alias
\* The expressions alias() can be asked about: the left operand, the right
\* operand, the result storage of the asked instance, an unrelated container.
Others == {"a", "b", "c", "other"}
\* A call of alias() is observed with its argument and its answer.
Asked(i, x, ans) == [op |-> "alias", inst |-> i, ret |-> NoRet, x |-> x, ans |-> ans]

\* _a.alias(rhs) and _b.alias(rhs): an operand aliases what occupies its memory.
a_alias(x) == x = "a"
b_alias(x) == x = "b"

\* alias(rhs): _a.alias(rhs) (unary), _a.alias(rhs) || _b.alias(rhs) (binary).
\* (a binary alias() that forgets the right operand)
alias_left_only(x) == a_alias(x)
alias(x) ==
    IF kind = "unary" THEN a_alias(x) ELSE a_alias(x) \/ b_alias(x)

Alias(i, x) ==
    /\ fault = "none" /\ i \in 1..n /\ x \in Others
    /\ kind = "unary" => x # "b"
    /\ last' = Asked(i, x, alias(x))
    /\ UNCHANGED <<kind, mode, a, b, n, c, allocated, evaluated, heap, fault, origin,
                   movedFrom, applyCount, applied, allocCount>>
    /\ UNCHANGED otherVars

\* The calls that construct instances and change their flags and storage.
LifeNext ==
    \/ \E e \in Inst : Copy(e)
    \/ \E e \in Inst : Move(e)
    \/ \E i \in Inst : AllocateTemporary(i)
    \/ \E i \in Inst : Evaluate(i)
    \/ \E i \in Inst, r \in CallerSlots : DirectEvaluate(i, r)

Next ==
    \/ LifeNext
    \/ \E i \in Inst : Result(i)
    \/ \E i \in Inst, acc \in Accessors : Read(i, acc)

Spec == Init /\ [][Next]_vars

\* alias() asked between any two of the calls that change an instance:
\* result() and the accessors built on it change neither a flag nor a
\* storage, so that these calls alone reach every state of the instances.
AliasNext ==
    \/ LifeNext
    \/ \E i \in Inst, x \in Others : Alias(i, x)

AliasSpec == Init /\ [][AliasNext]_vars

TypeOK ==
    /\ kind \in Kinds /\ mode \in Modes
    /\ a \in [Idx -> Values] /\ (b = NoOperand \/ b \in [Idx -> Values])
    /\ n \in Inst
    /\ c \in [Inst -> Slots \cup {Null}]
    /\ allocated \in [Inst -> BOOLEAN] /\ evaluated \in [Inst -> BOOLEAN]
    /\ \A s \in Slots : heap[s] = NoStorage \/ heap[s] \in Contents
    /\ fault \in {"none", "assert", "ub"}
    /\ movedFrom \subseteq Inst
    /\ allocCount \in Nat

\* ------------------------------------------------------------------ claims
\* The steps that are a call of one operation on instance i (every call
\* leaves its name and instance in last).
Called(op, i) == last'.op = op /\ last'.inst = i
Reads(i) ==
    /\ last'.inst = i /\ last'.op \in Accessors \cup {"result"}
    /\ (Result(i) \/ \E acc \in Accessors : Read(i, acc))
Evaluates(i) == Called("evaluate", i) /\ Evaluate(i)
DirectEvaluates(i, r) == Called("direct_evaluate", i) /\ DirectEvaluate(i, r)
Allocates(i) == Called("allocate_temporary", i) /\ AllocateTemporary(i)
Moves(e) == n' = n + 1 /\ origin'[n'] = [how |-> "move", from |-> e, had |-> c[e] # Null] /\ Move(e)

\* C1: result() called while evaluated is false or allocated is false fails an
\* assertion; result(), and every reader that goes through it (operator[],
\* read_flat, operator(), memory_start, memory_end), returns the result
\* storage of the instance only when both flags are true.
C1_ResultAsserts ==
    [][\A i \in Inst : Reads(i) =>
          /\ (~evaluated[i] \/ ~allocated[i]) => (fault' = "assert" /\ last'.ret = NoRet)
          /\ last'.ret # NoRet => (evaluated[i] /\ allocated[i] /\ last'.ret = c[i])]_vars

C1_Witness ==
    /\ fault = "assert" /\ last.op = "operator[]"
    /\ allocated[last.inst] /\ ~evaluated[last.inst]

C3_EvaluateRequiresAllocated ==
    [][\A i \in Inst : Evaluates(i) =>
          /\ (~evaluated[i] /\ ~allocated[i]) =>
                /\ fault' = "assert"
                /\ ~evaluated'[i]
                /\ UNCHANGED <<heap, applyCount, applied>>
          /\ evaluated[i] => (fault' = "none" /\ UNCHANGED <<heap, applyCount, evaluated>>)]_vars

C3_Witness ==
    /\ fault = "assert" /\ last.op = "evaluate"
    /\ ~allocated[last.inst] /\ ~evaluated[last.inst]
    /\ \A s \in Slots : applyCount[s] = 0

\* C4 as stated: on a forced expression direct_evaluate(r) calls Op::apply
\* straight into r and touches neither the internal result nor the flags; on
\* an unforced expression it runs evaluate() on the internal result and then
\* copies it into r.
C4_AsStated ==
    [][\A i \in Inst, r \in CallerSlots : DirectEvaluates(i, r) =>
          /\ ~is_not_forced =>
                /\ UNCHANGED <<allocated, evaluated, applyCount>>
                /\ heap' = [heap EXCEPT ![r] = OpApply(kind, a, b)]
          /\ is_not_forced =>
                /\ evaluated'[i] /\ c[i] # Null
                /\ heap'[r] = heap'[c[i]]]_vars

\* C4 amended: the modes are the other way round.  On an unforced expression
\* direct_evaluate(r) calls Op::apply straight into r and touches neither the
\* internal result nor the flags; on a forced expression it runs the full
\* evaluate() on the internal result (the bound destination) and then copies
\* that result into r.
C4_DirectEvaluateModes ==
    [][\A i \in Inst, r \in CallerSlots : DirectEvaluates(i, r) =>
          /\ is_not_forced =>
                /\ fault' = "none"
                /\ heap' = [heap EXCEPT ![r] = OpApply(kind, a, b)]
                /\ UNCHANGED <<c, allocated, evaluated, applyCount, applied, allocCount>>
          /\ (~is_not_forced /\ ~evaluated[i] /\ ~allocated[i]) =>
                (fault' = "assert" /\ UNCHANGED <<heap, evaluated, applyCount>>)
          /\ (~is_not_forced /\ ~evaluated[i] /\ allocated[i]) =>
                /\ fault' = "none" /\ evaluated'[i]
                /\ applyCount' = Bump(applyCount, c[i])
                /\ heap'[c[i]] = OpApply(kind, a, b)
                /\ heap'[r] = heap'[c[i]]
                /\ \A s \in Slots \ {c[i], r} : heap'[s] = heap[s]
          /\ (~is_not_forced /\ evaluated[i]) =>
                /\ fault' = "none"
                /\ UNCHANGED <<evaluated, applyCount>>
                /\ heap' = [heap EXCEPT ![r] = heap[c[i]]]]_vars

\* a forced expression that was evaluated by direct_evaluate(r) into its own
\* result and copied from there into a different r
C4_Witness ==
    /\ ~is_not_forced /\ fault = "none" /\ last.op = "direct_evaluate"
    /\ c[last.inst] # last.ret
    /\ applied[last.inst] = 1 /\ applyCount[c[last.inst]] = 1
    /\ evaluated[last.inst]
    /\ heap[c[last.inst]] = OpApply(kind, a, b)
    /\ heap[last.ret] = OpApply(kind, a, b)

\* The result storages made by Op::allocate.
Allocated == {s \in Slots \ CallerSlots : heap[s] # NoStorage}
Sharing(s) == {i \in 1..n : c[i] = s}

\* C5 as stated: Op::apply writes into a result storage shared by an unforced
\* expression and its copies at most once.
C5_AsStated ==
    is_not_forced => \A s \in Allocated : applyCount[s] <= 1

\* C5 amended: evaluated is a flag of the instance, copied by the copy
\* constructor, so the shared storage is written at most once per instance
\* sharing it: the number of Op::apply writes into it never exceeds the number
\* of instances that share it and have evaluated = true.
C5_OncePerInstance ==
    is_not_forced =>
        \A s \in Allocated :
            applyCount[s] <= Cardinality({i \in Sharing(s) : evaluated[i]})

\* the original and a copy made before evaluation have both evaluated: the
\* storage they share was written twice
C5_Witness ==
    /\ is_not_forced /\ n >= 2 /\ origin[2] = [how |-> "copy", from |-> 1, had |-> TRUE]
    /\ c[1] = c[2] /\ c[1] # Null
    /\ evaluated[1] /\ evaluated[2]
    /\ applied[1] = 1 /\ applied[2] = 1 /\ applyCount[c[1]] = 2

Copies == {j \in 1..n : origin[j].how = "copy"}
Ran(i) == allocated[i] /\ evaluated[i]

\* C6 as stated: for a copy-constructed copy of an unforced expression, made
\* at any point of the original's lifecycle, once allocate_temporary() and
\* evaluate() have run on the original or on the copy, both refer to one and
\* the same result storage.
C6_AsStated ==
    is_not_forced =>
        \A j \in Copies :
            (Ran(j) \/ Ran(origin[j].from)) =>
                (c[j] = c[origin[j].from] /\ c[j] # Null)

\* C6 amended: the storage is shared only by a copy made when the original's
\* result storage was already present (after allocate_temporary()): such a
\* copy and its original refer to one and the same result storage, as long as
\* neither has been the source of a move-construction.  A copy made before
\* the allocation has an empty _c of its own.
C6_CopiesShareStorage ==
    is_not_forced =>
        \A j \in Copies :
            (origin[j].had /\ j \notin movedFrom /\ origin[j].from \notin movedFrom) =>
                (c[j] = c[origin[j].from] /\ c[j] # Null)

\* a copy made between allocation and evaluation; evaluate() ran on the copy
\* and the original refers to the storage it wrote
C6_Witness ==
    /\ is_not_forced /\ n >= 2 /\ origin[2] = [how |-> "copy", from |-> 1, had |-> TRUE]
    /\ applied[2] = 1 /\ applied[1] = 0 /\ evaluated[2]
    /\ c[1] = c[2] /\ c[1] # Null
    /\ heap[c[1]] = OpApply(kind, a, b)

\* C7: move-constructing from an instance whose evaluate() has succeeded
\* leaves the source with evaluated = false and allocated unchanged; the new
\* instance has evaluated = true and allocated = true and its result() is the
\* result the source held before the move.
C7_MoveAfterEvaluate ==
    [][\A e \in Inst : (evaluated[e] /\ Moves(e)) =>
          LET j == n'
          IN /\ ~evaluated'[e]
             /\ allocated'[e] = allocated[e]
             /\ evaluated'[j] /\ allocated'[j]
             /\ result(evaluated'[j], allocated'[j], c'[j]).fault = "none"
             /\ heap'[c'[j]] = heap[c[e]]]_vars

C7_Witness ==
    \E j \in 1..n :
        /\ origin[j].how = "move" /\ applied[origin[j].from] = 1
        /\ evaluated[j] /\ allocated[j]
        /\ ~evaluated[origin[j].from] /\ allocated[origin[j].from]
        /\ heap[c[j]] = OpApply(kind, a, b)

\* C8: the flags are monotonic per instance: no call makes allocated go from
\* true to false, and evaluated goes from true to false only in the instance
\* that is the source of a move-construction.
C8_FlagsMonotonic ==
    [][\A i \in Inst :
          /\ allocated[i] => allocated'[i]
          /\ (evaluated[i] /\ ~evaluated'[i]) => Moves(i)]_vars

\* an instance that evaluated, was moved from, and kept allocated
C8_Witness ==
    \E i \in movedFrom : applied[i] = 1 /\ ~evaluated[i] /\ allocated[i] /\ fault = "none"

\* C9: allocate_temporary() is idempotent: in forced mode it never allocates
\* or replaces storage; in unforced mode it calls Op::allocate only when no
\* result storage is present and otherwise keeps the storage; it always
\* leaves allocated = true.
C9_AllocateIdempotent ==
    [][\A i \in Inst : Allocates(i) =>
          /\ allocated'[i]
          /\ (~is_not_forced \/ c[i] # Null) => UNCHANGED <<c, heap, allocCount>>
          /\ (is_not_forced /\ c[i] = Null) =>
                /\ allocCount' = allocCount + 1
                /\ c'[i] # Null /\ heap[c'[i]] = NoStorage /\ heap'[c'[i]] # NoStorage
                /\ \A k \in Inst \ {i} : c'[k] = c[k]]_vars

\* a second call on the constructed instance: one allocation so far, none in
\* this call
C9_Witness ==
    /\ is_not_forced /\ n = 1
    /\ last = Call("allocate_temporary", 1, Null)
    /\ allocCount = 1 /\ allocated[1] /\ c[1] # Null

\* C10: for a forced binary expression constructed with a destination,
\* direct_evaluate(dest) succeeds and leaves apply(a[k], b[k]) at every index
\* k of dest, and Op::allocate is never called: not at construction, not in
\* allocate_temporary(), not in direct_evaluate.
ForcedBinary == kind = "binary" /\ ~is_not_forced /\ origin[1].how = "ctor_dest"
C10_ForcedDirectEvaluate ==
    /\ [](ForcedBinary => allocCount = 0)
    /\ [][\A i \in Inst, r \in CallerSlots : (ForcedBinary /\ DirectEvaluates(i, r)) =>
             /\ fault' = "none"
             /\ \A k \in Idx : heap'[r][k] = a[k] + b[k]
             /\ allocCount' = 0]_vars

C10_Witness ==
    /\ ForcedBinary /\ fault = "none" /\ n = 1
    /\ last = Call("direct_evaluate", 1, DestR)
    /\ \A k \in Idx : heap[DestR][k] = a[k] + b[k]
    /\ \E k \in Idx : a[k] + b[k] = 2
    /\ allocCount = 0

\* C11: direct_evaluate() fails (assertion) when the expression has not
\* previously been allocated, in its forced and in its unforced variant: a
\* call on an instance with allocated = false never writes a result.
C11_AsStated ==
    [][\A i \in Inst, r \in CallerSlots :
          (~allocated[i] /\ DirectEvaluates(i, r)) =>
              (fault' = "assert" /\ UNCHANGED <<heap, applyCount>>)]_vars

\* C12: for a binary temporary expression alias(x) is true if and only if
\* a().alias(x) or b().alias(x), for a unary one alias(x) equals
\* a().alias(x); the answer depends neither on the lifecycle flags nor on the
\* result storage: it is the same for x being that storage, in every state of
\* the instance, and the call changes nothing.
C12_AliasOperands ==
    [][\A i \in Inst : Called("alias", i) =>
          /\ kind = "binary" => (last'.ans <=> (last'.x = "a" \/ last'.x = "b"))
          /\ kind = "unary" => (last'.ans <=> last'.x = "a")
          /\ last'.x = "c" => ~last'.ans
          /\ UNCHANGED <<c, allocated, evaluated, heap, fault>>]_vars

\* a binary expression, allocated and evaluated, asked about its right operand
C12_Witness ==
    /\ kind = "binary" /\ last.op = "alias" /\ last.x = "b" /\ last.ans
    /\ allocated[last.inst] /\ evaluated[last.inst] /\ c[last.inst] # Null

\* C26 as stated: in every reachable state of an unforced temporary
\* expression, allocated = true implies that the result storage of the
\* instance is present.
C26_AsStated ==
    is_not_forced => \A i \in 1..n : allocated[i] => c[i] # Null

\* C26 amended: allocated = true implies a present result storage except
\* after a move-construction.  The move constructor takes the storage out of
\* its source and leaves the source's allocated flag as it was, so an instance
\* with allocated = true and no storage is the source of a move-construction,
\* or was copy- or move-constructed from an instance in that state; every
\* other allocated instance refers to a storage made by Op::allocate.
Emptied(i) == i \in movedFrom \/ (origin[i].how \in {"copy", "move"} /\ ~origin[i].had)
C26_AllocatedHasStorage ==
    is_not_forced =>
        \A i \in 1..n :
            /\ (allocated[i] /\ ~Emptied(i)) => (c[i] # Null /\ heap[c[i]] # NoStorage)
            /\ c[i] # Null => (allocated[i] /\ heap[c[i]] # NoStorage)

\* after allocate_temporary() and a move-construction: the new instance has
\* the storage, the source keeps allocated = true without storage
C26_Witness ==
    /\ is_not_forced /\ n >= 2 /\ fault = "none"
    /\ origin[2] = [how |-> "move", from |-> 1, had |-> TRUE]
    /\ allocated[1] /\ c[1] = Null
    /\ allocated[2] /\ c[2] # Null /\ heap[c[2]] # NoStorage

\* C27: with assertions enabled, evaluated = true implies allocated = true
\* in every instance; hence gpu_delegate_valid() is true exactly when
\* evaluated is true and exactly when result() would not fail an assertion.
C27_EvaluatedImpliesAllocated ==
    \A i \in 1..n :
        /\ evaluated[i] => allocated[i]
        /\ gpu_delegate_valid(i) <=> evaluated[i]
        /\ gpu_delegate_valid(i) <=> result(evaluated[i], allocated[i], c[i]).fault # "assert"

\* evaluate() has run on a move-constructed instance: it is valid, its source
\* (allocated, no longer evaluated) is not
C27_Witness ==
    /\ fault = "none" /\ n >= 2 /\ last.op = "evaluate" /\ last.inst = 2
    /\ origin[2].how = "move"
    /\ evaluated[2] /\ allocated[2] /\ gpu_delegate_valid(2)
    /\ allocated[1] /\ ~evaluated[1] /\ ~gpu_delegate_valid(1)

\* ==================================================== repeat transformers
\* No temporary expression is built.
ExprIdle ==
    /\ kind = "none" /\ mode = "none" /\ a = << >> /\ b = << >> /\ n = 0
    /\ c = << >> /\ allocated = << >> /\ evaluated = << >> /\ heap = << >>
    /\ fault = "none" /\ last = NoCall /\ origin = << >> /\ movedFrom = {}
    /\ applyCount = << >> /\ applied = << >> /\ allocCount = 0

MaxExt == 2       \* largest extent of the last dimension of the sub-expression
MaxCount == 3     \* largest repeat count

RepKinds == {"rep_r", "rep_l", "dyn_rep_r", "dyn_rep_l"}
is_dyn == tkind \in {"dyn_rep_r", "dyn_rep_l"}
is_right == tkind \in {"rep_r", "dyn_rep_r"}

\* Dimensions of the sub-expressions (rank 1 and 2) and the repeat counts
\* (one or two added dimensions).
Shapes == {<<e>> : e \in 1..MaxExt} \cup {<<2, e>> : e \in 1..MaxExt}
RepSets == {<<p>> : p \in 1..MaxCount} \cup {<<2, p>> : p \in 1..MaxCount}

\* mul_all<D...>::value: the product of the static repeat counts.
RECURSIVE mul_all(_)
mul_all(D) == IF D = << >> THEN 1 ELSE Head(D) * mul_all(Tail(D))

\* std::accumulate(reps.begin(), reps.end(), 1UL, a * b) of the dynamic
\* constructors.
RECURSIVE accumulate(_, _)
accumulate(r, init) == IF r = << >> THEN init ELSE accumulate(Tail(r), init * Head(r))

\* etl::size(sub) and the flat / positional reads of the sub-expression, a
\* container of either storage order whose flat element k (from 0), the
\* element number k of its memory, is k + 1.
Orders == {"RowMajor", "ColumnMajor"}
size(e) == mul_all(e.dims)
Container(shape, order) ==
    [dims |-> shape, order |-> order, data |-> [k \in 0..(mul_all(shape) - 1) |-> k + 1]]
\* the flat index of a coordinate tuple: the last coordinate runs fastest
\* (row-major), the first one does (column-major)
RECURSIVE flat_of(_, _, _)
flat_of(dims, coords, acc) ==
    IF dims = << >> THEN acc
    ELSE flat_of(Tail(dims), Tail(coords), acc * Head(dims) + Head(coords))
RECURSIVE col_flat_of(_, _)
col_flat_of(dims, coords) ==
    IF dims = << >> THEN 0
    ELSE Head(coords) + Head(dims) * col_flat_of(Tail(dims), Tail(coords))
index_in(order, dims, coords) ==
    IF order = "ColumnMajor" THEN col_flat_of(dims, coords) ELSE flat_of(dims, coords, 0)
sub_flat(e, k) == e.data[k]
\* (0: no element, the read is outside the container)
sub_at(e, coords) ==
    LET k == index_in(e.order, e.dims, coords)
    IN IF k \in DOMAIN e.data THEN e.data[k] ELSE 0

\* The constructors: rep_*_transformer(expr) and dyn_rep_*_transformer(expr, reps_a).
RepConstruct(k, shape, order, counts) ==
    /\ tkind = k
    /\ sub = Container(shape, order)
    /\ reps = counts
    /\ rep_m = IF k \in {"dyn_rep_r", "dyn_rep_l"} THEN accumulate(counts, 1) ELSE 0
    /\ got = NoRead

RepInit ==
    /\ \E k \in RepKinds, shape \in Shapes, order \in Orders, counts \in RepSets :
          RepConstruct(k, shape, order, counts)
    /\ ExprIdle /\ TraitIdle /\ CudnnIdle /\ MoreIdle

\* The repeated size: mul_all<D...>::value (static), the member m (dynamic).
repeated == IF is_dyn THEN rep_m ELSE mul_all(reps)

\* etl_traits<...>::size(v), dimensions() and dim(v, d) (d from 0).
\* (a size that forgets the repeats)
rep_size_sub == size(sub)
rep_size == repeated * size(sub)
sub_d == Len(sub.dims)
dimensions == Len(reps) + sub_d
\* etl_traits<sub_expr_t>::dim(v.sub, d), dyn_nth_size<D...>(i), v.reps[i]
sub_dim(d) == sub.dims[d + 1]
dyn_nth_size(i) == reps[i + 1]
\* rep_r_transformer and dyn_rep_r_transformer
rep_r_dim(d) == IF d < sub_d THEN sub_dim(d) ELSE dyn_nth_size(d - sub_d)
dyn_rep_r_dim(d) == IF d < sub_d THEN sub_dim(d) ELSE reps[d - sub_d + 1]
\* rep_l_transformer and dyn_rep_l_transformer
\* (a left transformer that falls through to the sub-expression first)
dim_fallthrough(d) == rep_r_dim(d)
rep_l_dim(d) == IF d >= Len(reps) THEN sub_dim(d - Len(reps)) ELSE dyn_nth_size(d)
dyn_rep_l_dim(d) == IF d >= Len(reps) THEN sub_dim(d - Len(reps)) ELSE reps[d + 1]
dim(d) ==
    IF tkind = "rep_r" THEN rep_r_dim(d)
    ELSE IF tkind = "dyn_rep_r" THEN dyn_rep_r_dim(d)
    ELSE IF tkind = "rep_l" THEN rep_l_dim(d)
    ELSE dyn_rep_l_dim(d)

\* operator[](i) and read_flat(i): the flat index of sub that is read.
\* (the arithmetic of the two directions exchanged)
flat_index_swapped(i) == IF is_right THEN i % size(sub) ELSE i \div repeated
\* (a left transformer with the arithmetic of a right one)
flat_index_div(i) == i \div repeated
\* (a right transformer with the arithmetic of a left one)
flat_index_mod(i) == i % size(sub)
flat_index(i) == IF is_right THEN i \div repeated ELSE i % size(sub)

ReadFlat(op, i) ==
    /\ op \in {"operator[]", "read_flat"} /\ i \in 0..(rep_size - 1)
    /\ got' = [op |-> op, at |-> i, args |-> << >>, from |-> flat_index(i),
               coords |-> << >>, val |-> sub_flat(sub, flat_index(i))]
    /\ UNCHANGED <<tkind, sub, reps, rep_m>>
    /\ UNCHANGED repRest

\* operator()(args...): selected_only(make_index_range<dim_start, dim_end>(), args...)
\* (a left transformer whose range starts one dimension early)
dim_start_short == IF is_right THEN 0 ELSE Len(reps) - 1
dim_start == IF is_right THEN 0 ELSE Len(reps)
dim_end == IF is_right THEN sub_d ELSE dimensions
\* make_index_range<B, E>: the indices B, ..., E - 1
make_index_range(first, end) == [j \in 1..(end - first) |-> first + j - 1]
\* cpp::nth_value<I>(sizes...): the argument number I (from 0)
nth_value(I, sizes) == sizes[I + 1]
selected_only(seq, sizes) == [j \in DOMAIN seq |-> nth_value(seq[j], sizes)]

\* The coordinate tuples inside the dimensions of the transformer.
MaxCoord == IF MaxExt > MaxCount THEN MaxExt ELSE MaxCount
Coordinates == {t \in [1..dimensions -> 0..(MaxCoord - 1)] :
                   \A j \in 1..dimensions : t[j] < dim(j - 1)}

Positional(args) ==
    /\ args \in Coordinates
    /\ LET sel == selected_only(make_index_range(dim_start, dim_end), args)
       IN got' = [op |-> "operator()", at |-> 0, args |-> args, from |-> 0,
                  coords |-> sel, val |-> sub_at(sub, sel)]
    /\ UNCHANGED <<tkind, sub, reps, rep_m>>
    /\ UNCHANGED repRest

\* etl::dimensions(v), etl::size(v) and etl::dim(v, d) through the traits.
Asks(op, d, val) ==
    [op |-> op, at |-> d, args |-> << >>, from |-> 0, coords |-> << >>, val |-> val]
AskDimensions ==
    /\ got' = Asks("dimensions", 0, dimensions)
    /\ UNCHANGED <<tkind, sub, reps, rep_m>>
    /\ UNCHANGED repRest
AskSize ==
    /\ got' = Asks("size", 0, rep_size)
    /\ UNCHANGED <<tkind, sub, reps, rep_m>>
    /\ UNCHANGED repRest
AskDim(d) ==
    /\ d \in 0..(dimensions - 1)
    /\ got' = Asks("dim", d, dim(d))
    /\ UNCHANGED <<tkind, sub, reps, rep_m>>
    /\ UNCHANGED repRest

RepNext ==
    \/ \E op \in {"operator[]", "read_flat"}, i \in 0..(rep_size - 1) : ReadFlat(op, i)
    \/ \E args \in Coordinates : Positional(args)
    \/ AskDimensions
    \/ AskSize
    \/ \E d \in 0..(dimensions - 1) : AskDim(d)

RepSpec == RepInit /\ [][RepNext]_vars

\* ------------------------------------------------- claims on the transformers
\* The number of repeats and of elements, counted: the coordinate tuples of
\* the added dimensions and the elements of the sub-expression.
RepeatProduct ==
    Cardinality({t \in [DOMAIN reps -> 0..(MaxCount - 1)] : \A j \in DOMAIN reps : t[j] < reps[j]})
SubSize == Cardinality(DOMAIN sub.data)
FlatRead == got.op \in {"operator[]", "read_flat"}

\* C13 as stated: reading a static or dynamic repeat transformer at the flat
\* index i in [0, size) equals reading the sub-expression at i mod subSize
\* for a right-repeat transformer and at i / repeatProduct for a left-repeat
\* transformer.
C13_AsStated ==
    FlatRead =>
        got.val = sub_flat(sub, IF is_right THEN got.at % SubSize
                                ELSE got.at \div RepeatProduct)

\* C13 amended: the two directions are the other way round.  Reading the
\* transformer at the flat index i in [0, size) reads the sub-expression at
\* i / repeatProduct for a right-repeat transformer and at i mod subSize for
\* a left-repeat transformer, static or dynamic, through operator[] and
\* through read_flat.
C13_RepeatIndex ==
    FlatRead =>
        /\ is_right => got.from = got.at \div RepeatProduct
        /\ ~is_right => got.from = got.at % SubSize
        /\ got.from \in 0..(SubSize - 1)
        /\ got.val = sub_flat(sub, got.from)

\* a right-repeat read where the two formulas differ: index 1 of two repeats
\* of two elements reads element 0
C13_Witness ==
    /\ tkind = "dyn_rep_r" /\ got.op = "read_flat"
    /\ RepeatProduct = 2 /\ SubSize = 2
    /\ got.at = 1 /\ got.from = 0 /\ got.val = 1

\* C14: a left-repeat transformer, static or dynamic, with repeat counts of
\* product P over a sub-expression of size N has size P * N, and its flat
\* element k, for every k in [0, P * N), is sub-expression element k mod N.
C14_LeftRepeat ==
    ~is_right /\ tkind # "none" =>
        /\ rep_size = RepeatProduct * SubSize
        /\ FlatRead =>
              /\ got.at \in 0..(RepeatProduct * SubSize - 1)
              /\ got.val = sub.data[got.at % SubSize]

\* the repeat counts {2,3} over N = 2 elements: 12 elements, the last one
\* is element 1 of the sub-expression
C14_Witness ==
    /\ tkind = "rep_l" /\ reps = <<2, 3>> /\ sub.dims = <<2>>
    /\ rep_size = 6 * SubSize
    /\ got.op = "operator[]" /\ got.at = 11 /\ got.val = sub.data[1]

\* C15: a right-repeat transformer, static or dynamic, with repeat counts of
\* product P over a sub-expression of size N has size P * N, and its flat
\* element k, for every k in [0, P * N), is sub-expression element k / P;
\* the 2x2 matrix [[1,2],[3,4]] right-repeated by 2 has size 8 and the
\* elements [1,1,2,2,3,3,4,4].
C15_RightRepeat ==
    is_right =>
        /\ rep_size = RepeatProduct * SubSize
        /\ FlatRead =>
              /\ got.at \in 0..(RepeatProduct * SubSize - 1)
              /\ got.val = sub.data[got.at \div RepeatProduct]
        /\ (sub.dims = <<2, 2>> /\ sub.order = "RowMajor" /\ reps = <<2>>) =>
              /\ sub.data = [k \in 0..3 |-> k + 1]
              /\ rep_size = 8
              /\ FlatRead => got.val = <<1, 1, 2, 2, 3, 3, 4, 4>>[got.at + 1]

\* element 5 of the 2x2 matrix right-repeated by 2 is 3
C15_Witness ==
    /\ tkind = "rep_r" /\ sub.dims = <<2, 2>> /\ sub.order = "RowMajor" /\ reps = <<2>>
    /\ rep_size = 8 /\ got.op = "read_flat" /\ got.at = 5 /\ got.val = 3

\* C16: positional access forwards to the sub-expression exactly the
\* coordinates of the sub-expression's own dimensions, in their order: a
\* right-repeat transformer over a rank-s sub-expression forwards the
\* coordinates 0..s-1, a left-repeat transformer with r added dimensions the
\* coordinates r..r+s-1; the others are dropped.
C16_PositionalForwards ==
    got.op = "operator()" =>
        LET s == Len(sub.dims)
            r == Len(reps)
        IN /\ Len(got.args) = r + s
           /\ is_right => got.coords = SubSeq(got.args, 1, s)
           /\ ~is_right => got.coords = SubSeq(got.args, r + 1, r + s)
           /\ got.val = sub_at(sub, got.coords)

\* a left transformer with two added dimensions over a rank-2 sub-expression:
\* (1, 2, 1, 0) reads sub(1, 0)
C16_Witness ==
    /\ tkind = "rep_l" /\ reps = <<2, 3>> /\ sub.dims = <<2, 2>> /\ sub.order = "RowMajor"
    /\ got.op = "operator()" /\ got.args = <<1, 2, 1, 0>>
    /\ got.coords = <<1, 0>> /\ got.val = 3

\* C23: dimension queries on a repeat transformer use the composed shape.
\* With a rank-s sub-expression and r added repeat dimensions, dimensions()
\* is r + s; a right-repeat transformer has dim(d) = the sub-expression's
\* dim(d) for d < s and repeat count number d - s for s <= d < r + s; a
\* left-repeat transformer has dim(d) = repeat count number d for d < r and
\* the sub-expression's dim(d - r) for r <= d < r + s; the static and the
\* dynamic variants agree, and the product of dim(d) over all d is size().
RECURSIVE DimProduct(_)
DimProduct(d) == IF d = 0 THEN 1 ELSE dim(d - 1) * DimProduct(d - 1)
C23_ComposedDims ==
    LET s == Len(sub.dims)
        r == Len(reps)
    IN /\ got.op = "dimensions" => got.val = r + s
       /\ got.op = "dim" =>
             /\ got.at \in 0..(r + s - 1)
             /\ (is_right /\ got.at < s) => got.val = sub.dims[got.at + 1]
             /\ (is_right /\ got.at >= s) => got.val = reps[got.at - s + 1]
             /\ (~is_right /\ got.at < r) => got.val = reps[got.at + 1]
             /\ (~is_right /\ got.at >= r) => got.val = sub.dims[got.at - r + 1]
             /\ rep_r_dim(got.at) = dyn_rep_r_dim(got.at)
             /\ rep_l_dim(got.at) = dyn_rep_l_dim(got.at)
       /\ got.op = "size" => got.val = DimProduct(r + s)

\* dimension 2 of a dynamic left transformer with the repeat counts {2, 3}
\* over a 2 x 1 sub-expression is dimension 0 of the sub-expression
C23_Witness ==
    /\ tkind = "dyn_rep_l" /\ reps = <<2, 3>> /\ sub.dims = <<2, 1>>
    /\ got.op = "dim" /\ got.at = 2 /\ got.val = 2
    /\ dimensions = 4 /\ rep_size = 12

\* The expanded shape of the transformer, its storage order (the one of the
\* sub-expression) and the flat index of a coordinate tuple in that shape.
Expanded == [d \in 1..dimensions |-> dim(d - 1)]
rep_storage_order == sub.order
ExpandedIndex(args) == index_in(rep_storage_order, Expanded, args)

\* C28 as stated: for every repeat transformer and every in-range coordinate
\* tuple, positional access returns the value flat access returns at the
\* flat index of the tuple in the expanded shape, computed in the storage
\* order of the transformer.
C28_AsStated ==
    got.op = "operator()" =>
        got.val = sub_flat(sub, flat_index(ExpandedIndex(got.args)))

\* C28 amended: the flat access of the transformers places the repeats
\* after (right) or before (left) the flat index k the sub-expression gives
\* its own coordinates: positional access of a tuple returns what flat
\* access returns at k * P + t (right) and at t * N + k (left), for every t
\* below the repeat product P, N being the size of the sub-expression.  That
\* is the flat index of the tuple in the expanded shape when the storage order
\* is row-major; for a column-major sub-expression it is not.
C28_PositionalIsFlat ==
    got.op = "operator()" =>
        LET k == index_in(sub.order, sub.dims, got.coords)
        IN /\ \A t \in 0..(RepeatProduct - 1) :
                 got.val = sub_flat(sub, flat_index(IF is_right THEN k * RepeatProduct + t
                                                    ELSE t * SubSize + k))
           /\ rep_storage_order = "RowMajor" =>
                 /\ ExpandedIndex(got.args) \in 0..(rep_size - 1)
                 /\ got.val = sub_flat(sub, flat_index(ExpandedIndex(got.args)))

\* a right transformer with 3 repeats over a row-major 2 x 2 sub-expression:
\* (1, 0, 2) is flat index 8, element 2 of the sub-expression
C28_Witness ==
    /\ tkind = "rep_r" /\ reps = <<3>> /\ sub.dims = <<2, 2>> /\ sub.order = "RowMajor"
    /\ got.op = "operator()" /\ got.args = <<1, 0, 2>>
    /\ ExpandedIndex(got.args) = 8 /\ flat_index(8) = 2 /\ got.val = 3

\* ================================================================ etl_traits
VectorModes == {"NONE", "SSE3", "AVX"}
Temporaries == {"temporary_unary_expr", "temporary_binary_expr"}
StaticReps == {"rep_r_transformer", "rep_l_transformer"}
DynReps == {"dyn_rep_r_transformer", "dyn_rep_l_transformer"}
Nodes == Temporaries \cup StaticReps \cup DynReps

\* The traits an operand type can have.
OperandTraits ==
    [is_fast : BOOLEAN, is_generator : BOOLEAN, storage_order : Orders,
     vectorizable : [VectorModes -> BOOLEAN]]

TraitInit ==
    /\ node \in Nodes
    /\ ta \in OperandTraits
    /\ tb \in IF node = "temporary_binary_expr" THEN OperandTraits ELSE {NoTraits}
    /\ trait = NoTrait
    /\ ExprIdle /\ RepIdle /\ CudnnIdle /\ MoreIdle

\* etl_traits<...>::is_fast
\* (a binary expression that is fast as soon as one operand is)
is_fast_either ==
    IF node = "temporary_binary_expr" THEN ta.is_fast \/ tb.is_fast
    ELSE IF node \in DynReps THEN FALSE
    ELSE ta.is_fast
is_fast ==
    IF node = "temporary_binary_expr" THEN ta.is_fast /\ tb.is_fast
    ELSE IF node \in DynReps THEN FALSE
    ELSE ta.is_fast

\* etl_traits<...>::storage_order
\* (a binary expression that always takes the order of its left operand)
storage_order_left == ta.storage_order
storage_order ==
    IF node = "temporary_binary_expr"
    THEN (IF ta.is_generator THEN tb.storage_order ELSE ta.storage_order)
    ELSE ta.storage_order

\* etl_traits<...>::vectorizable<V>: std::true_type in the temporary
\* expressions, std::false_type in the transformers.
\* (traits that ask the operand types)
vectorizable_operands(V) ==
    /\ ta.vectorizable[V]
    /\ node = "temporary_binary_expr" => tb.vectorizable[V]
vectorizable(V) == node \in Temporaries

AskIsFast ==
    /\ trait' = [name |-> "is_fast", V |-> "none", flag |-> is_fast, order |-> "none"]
    /\ UNCHANGED <<node, ta, tb>>
    /\ UNCHANGED traitRest

AskStorageOrder ==
    /\ trait' = [name |-> "storage_order", V |-> "none", flag |-> FALSE, order |-> storage_order]
    /\ UNCHANGED <<node, ta, tb>>
    /\ UNCHANGED traitRest

AskVectorizable(V) ==
    /\ V \in VectorModes
    /\ trait' = [name |-> "vectorizable", V |-> V, flag |-> vectorizable(V), order |-> "none"]
    /\ UNCHANGED <<node, ta, tb>>
    /\ UNCHANGED traitRest

TraitNext ==
    \/ AskIsFast
    \/ AskStorageOrder
    \/ \E V \in VectorModes : AskVectorizable(V)

TraitSpec == TraitInit /\ [][TraitNext]_vars

\* ------------------------------------------------------ claims on the traits
\* C17: is_fast of a binary temporary expression is true if and only if both
\* operand types are fast; of a unary temporary expression and of a static
\* repeat transformer it is the operand's is_fast; of a dynamic repeat
\* transformer it is always false.
C17_IsFast ==
    trait.name = "is_fast" =>
        /\ node = "temporary_binary_expr" => (trait.flag <=> (ta.is_fast /\ tb.is_fast))
        /\ node \in {"temporary_unary_expr"} \cup StaticReps => (trait.flag <=> ta.is_fast)
        /\ node \in DynReps => ~trait.flag

\* a binary expression over a fast and a non-fast operand is not fast
C17_Witness ==
    /\ trait.name = "is_fast" /\ node = "temporary_binary_expr"
    /\ ta.is_fast /\ ~tb.is_fast /\ ~trait.flag

\* C18: the storage order of a binary temporary expression is the concrete
\* operand's order whenever exactly one operand is a generator: with a
\* generator on the left it is the right operand's order, otherwise (also
\* with a generator on the right only) the left operand's order.
C18_StorageOrder ==
    (trait.name = "storage_order" /\ node = "temporary_binary_expr") =>
        /\ (ta.is_generator /\ ~tb.is_generator) => trait.order = tb.storage_order
        /\ (~ta.is_generator /\ tb.is_generator) => trait.order = ta.storage_order
        /\ ta.is_generator => trait.order = tb.storage_order
        /\ ~ta.is_generator => trait.order = ta.storage_order

\* a row-major generator on the left, a column-major container on the right
C18_Witness ==
    /\ trait.name = "storage_order" /\ node = "temporary_binary_expr"
    /\ ta.is_generator /\ ta.storage_order = "RowMajor"
    /\ ~tb.is_generator /\ tb.storage_order = "ColumnMajor"
    /\ trait.order = "ColumnMajor"

\* C19 as stated: for every vector mode, a unary or binary temporary
\* expression or a repeat transformer reports vectorizable = true only if
\* every participating sub-expression type reports vectorizable = true for
\* that mode.
C19_AsStated ==
    (trait.name = "vectorizable" /\ trait.flag) =>
        /\ ta.vectorizable[trait.V]
        /\ node = "temporary_binary_expr" => tb.vectorizable[trait.V]

\* C19 amended: vectorizability is not propagated from the operands.  For
\* every vector mode a repeat transformer (static or dynamic, left or right)
\* reports vectorizable = false and a unary or binary temporary expression
\* reports vectorizable = true, whatever the operand types report.
C19_VectorizableFixed ==
    trait.name = "vectorizable" =>
        /\ node \in StaticReps \cup DynReps => ~trait.flag
        /\ node \in Temporaries => trait.flag

\* a binary expression over an operand that is not vectorizable for AVX
\* reports vectorizable<AVX> = true
C19_Witness ==
    /\ trait.name = "vectorizable" /\ trait.V = "AVX" /\ node = "temporary_binary_expr"
    /\ ~ta.vectorizable["AVX"] /\ tb.vectorizable["AVX"] /\ trait.flag

\* ===================================================== max_pool_2d::apply
\* The statements of apply(x, y, c1, c2, s1, s2, p1, p2) for an input of rank
\* below 5, in program order; create_pooling_descriptor and create_tensor are
\* two cuDNN calls each, and the three descriptor wrappers are destroyed in
\* reverse order of construction when apply returns.  The handle of
\* start_cudnn() is the static one (ETL_CUDNN_LOCAL_HANDLE not defined).
\* (apply with y.validate_gpu() placed before the pooling call)
Statements_validate_first ==
    <<"start_cudnn",
      "cudnnCreatePoolingDescriptor", "cudnnSetPooling2dDescriptor",
      "cudnnCreateTensorDescriptor(x)", "cudnnSetTensor4dDescriptor(x)",
      "cudnnCreateTensorDescriptor(y)", "cudnnSetTensor4dDescriptor(y)",
      "ensure_gpu_up_to_date", "ensure_gpu_allocated",
      "validate_gpu",
      "cudnnPoolingForward", "invalidate_cpu",
      "cudnnDestroyTensorDescriptor(y)", "cudnnDestroyTensorDescriptor(x)",
      "cudnnDestroyPoolingDescriptor",
      "done">>
Statements ==
    <<"start_cudnn",
      "cudnnCreatePoolingDescriptor", "cudnnSetPooling2dDescriptor",
      "cudnnCreateTensorDescriptor(x)", "cudnnSetTensor4dDescriptor(x)",
      "cudnnCreateTensorDescriptor(y)", "cudnnSetTensor4dDescriptor(y)",
      "ensure_gpu_up_to_date", "ensure_gpu_allocated",
      "cudnnPoolingForward",
      "validate_gpu", "invalidate_cpu",
      "cudnnDestroyTensorDescriptor(y)", "cudnnDestroyTensorDescriptor(x)",
      "cudnnDestroyPoolingDescriptor",
      "done">>
position(st) == CHOOSE k \in DOMAIN Statements : Statements[k] = st
following(st) == Statements[position(st) + 1]

Success == "CUDNN_STATUS_SUCCESS"
Statuses == {Success, "CUDNN_STATUS_EXECUTION_FAILED"}

Descriptors == {"pooling_desc", "x_tensor", "y_tensor"}
Creates == [pooling_desc |-> "cudnnCreatePoolingDescriptor",
            x_tensor |-> "cudnnCreateTensorDescriptor(x)",
            y_tensor |-> "cudnnCreateTensorDescriptor(y)"]
Sets == [pooling_desc |-> "cudnnSetPooling2dDescriptor",
         x_tensor |-> "cudnnSetTensor4dDescriptor(x)",
         y_tensor |-> "cudnnSetTensor4dDescriptor(y)"]
Destroys == [pooling_desc |-> "cudnnDestroyPoolingDescriptor",
             x_tensor |-> "cudnnDestroyTensorDescriptor(x)",
             y_tensor |-> "cudnnDestroyTensorDescriptor(y)"]

\* cudnn_check(call): the status is compared with CUDNN_STATUS_SUCCESS and a
\* failure is written to std::cerr; the macro neither throws nor aborts.
\* (a check that throws on failure)
cudnn_check_throws(call, st) ==
    [report |-> IF st # Success THEN <<call>> ELSE << >>, unwinds |-> st # Success]
\* (a check that drops the status)
cudnn_check_silent(call, st) == [report |-> << >>, unwinds |-> FALSE]
cudnn_check(call, st) ==
    [report |-> IF st # Success THEN <<call>> ELSE << >>, unwinds |-> FALSE]

\* The statement that runs after a checked call.
Checked(call, st) ==
    LET chk == cudnn_check(call, st)
    IN /\ status' = st
       /\ cerr' = cerr \o chk.report
       /\ pc' = IF chk.unwinds THEN "unwound" ELSE following(call)
       /\ crash' = FALSE

\* A cuDNN call on a descriptor or handle whose creation failed reads a
\* variable that was never written: besides returning a status it can end
\* the program.
Crashed ==
    /\ crash' = TRUE /\ pc' = "crashed" /\ status' = "none"
    /\ UNCHANGED <<cerr, handle, desc, xg, yg>>

XStates == {[cpu |-> TRUE, gpu |-> FALSE, alloc |-> FALSE],
            [cpu |-> TRUE, gpu |-> TRUE, alloc |-> TRUE],
            [cpu |-> FALSE, gpu |-> TRUE, alloc |-> TRUE]}
YStates == {[cpu |-> cv, gpu |-> gv, alloc |-> al, data |-> "stale"] :
               cv \in BOOLEAN, gv \in {FALSE}, al \in BOOLEAN}
             \cup {[cpu |-> cv, gpu |-> TRUE, alloc |-> TRUE, data |-> "stale"] : cv \in BOOLEAN}

CudnnInit ==
    /\ pc = "start_cudnn" /\ status = "none" /\ cerr = << >> /\ crash = FALSE
    /\ handle \in {"none", "valid", "indeterminate"}
    /\ desc = [d \in Descriptors |-> "none"]
    /\ xg \in XStates /\ yg \in YStates
    /\ ExprIdle /\ RepIdle /\ TraitIdle /\ MoreIdle

\* decltype(auto) handle = start_cudnn(): the first call constructs the static
\* cudnn_handle, whose constructor is cudnn_check(cudnnCreate(&handle)).
StartCudnn ==
    /\ pc = "start_cudnn"
    /\ IF handle = "none"
       THEN \E st \in Statuses :
               /\ handle' = IF st = Success THEN "valid" ELSE "indeterminate"
               /\ status' = st
               /\ cerr' = cerr \o cudnn_check("cudnnCreate", st).report
               /\ pc' = IF cudnn_check("cudnnCreate", st).unwinds THEN "unwound"
                        ELSE following("start_cudnn")
       ELSE /\ pc' = following("start_cudnn")
            /\ UNCHANGED <<handle, status, cerr>>
    /\ UNCHANGED <<desc, xg, yg, crash>>
    /\ UNCHANGED cudnnRest

\* cudnn_check(cudnnCreate*Descriptor(&d)): a failed creation leaves the
\* local d unwritten.
CreateDescriptor(d) ==
    /\ d \in Descriptors /\ pc = Creates[d]
    /\ \E st \in Statuses :
          /\ desc' = [desc EXCEPT ![d] = IF st = Success THEN "valid" ELSE "indeterminate"]
          /\ Checked(Creates[d], st)
    /\ UNCHANGED <<handle, xg, yg>>
    /\ UNCHANGED cudnnRest

\* cudnn_check(cudnnSet*Descriptor(d, ...))
SetDescriptor(d) ==
    /\ d \in Descriptors /\ pc = Sets[d]
    /\ \/ \E st \in Statuses : Checked(Sets[d], st) /\ UNCHANGED <<handle, desc, xg, yg>>
       \/ desc[d] = "indeterminate" /\ Crashed
    /\ UNCHANGED cudnnRest

\* x.ensure_gpu_up_to_date(): GPU memory is allocated and, when it is not
\* valid, filled from the CPU memory.
EnsureGpuUpToDate ==
    /\ pc = "ensure_gpu_up_to_date"
    /\ xg' = [xg EXCEPT !.alloc = TRUE, !.gpu = TRUE]
    /\ pc' = following(pc) /\ status' = "none"
    /\ UNCHANGED <<cerr, handle, desc, yg, crash>>
    /\ UNCHANGED cudnnRest

\* y.ensure_gpu_allocated()
EnsureGpuAllocated ==
    /\ pc = "ensure_gpu_allocated"
    /\ yg' = [yg EXCEPT !.alloc = TRUE]
    /\ pc' = following(pc) /\ status' = "none"
    /\ UNCHANGED <<cerr, handle, desc, xg, crash>>
    /\ UNCHANGED cudnnRest

\* cudnn_check(cudnnPoolingForward(handle.get(), *pooling_desc, alpha,
\* *x_tensor, x.gpu_memory(), beta, *y_tensor, y.gpu_memory())): on success the
\* GPU memory of y holds the pooled input, on failure it is unspecified.
PoolingForward ==
    /\ pc = "cudnnPoolingForward"
    /\ \/ \E st \in Statuses :
             /\ Checked("cudnnPoolingForward", st)
             /\ yg' = [yg EXCEPT !.data = IF st = Success THEN "pooled" ELSE "unspecified"]
             /\ UNCHANGED <<handle, desc, xg>>
       \/ /\ handle = "indeterminate" \/ \E d \in Descriptors : desc[d] = "indeterminate"
          /\ Crashed
    /\ UNCHANGED cudnnRest

\* y.validate_gpu()
ValidateGpu ==
    /\ pc = "validate_gpu"
    /\ yg' = [yg EXCEPT !.gpu = TRUE]
    /\ pc' = following(pc) /\ status' = "none"
    /\ UNCHANGED <<cerr, handle, desc, xg, crash>>
    /\ UNCHANGED cudnnRest

\* y.invalidate_cpu()
InvalidateCpu ==
    /\ pc = "invalidate_cpu"
    /\ yg' = [yg EXCEPT !.cpu = FALSE]
    /\ pc' = following(pc) /\ status' = "none"
    /\ UNCHANGED <<cerr, handle, desc, xg, crash>>
    /\ UNCHANGED cudnnRest

\* ~cudnn_wrapper(): if (tensor) cudnn_check(cudnnDestroy*Descriptor(tensor)).
\* The test of a tensor that was never written can go either way.
DestroyDescriptor(d) ==
    /\ d \in Descriptors /\ pc = Destroys[d]
    /\ \/ /\ desc[d] \in {"valid", "indeterminate"}
          /\ \E st \in Statuses : Checked(Destroys[d], st)
          /\ desc' = [desc EXCEPT ![d] = "destroyed"]
          /\ UNCHANGED <<handle, xg, yg>>
       \/ /\ desc[d] = "indeterminate"
          /\ pc' = following(pc) /\ status' = "none"
          /\ UNCHANGED <<cerr, handle, desc, xg, yg, crash>>
       \/ desc[d] = "indeterminate" /\ Crashed
    /\ UNCHANGED cudnnRest

CudnnNext ==
    \/ StartCudnn
    \/ \E d \in Descriptors : CreateDescriptor(d)
    \/ \E d \in Descriptors : SetDescriptor(d)
    \/ EnsureGpuUpToDate
    \/ EnsureGpuAllocated
    \/ PoolingForward
    \/ ValidateGpu
    \/ InvalidateCpu
    \/ \E d \in Descriptors : DestroyDescriptor(d)

CudnnSpec == CudnnInit /\ [][CudnnNext]_vars

\* --------------------------------------------------- claims on the backend
\* The statements that are a cuDNN call under cudnn_check.
CheckedCalls ==
    {Creates[d] : d \in Descriptors} \cup {Sets[d] : d \in Descriptors}
        \cup {Destroys[d] : d \in Descriptors} \cup {"cudnnPoolingForward"}
ForwardFailed == \E k \in DOMAIN cerr : cerr[k] = "cudnnPoolingForward"
AfterMarks ==
    {"cudnnDestroyTensorDescriptor(y)", "cudnnDestroyTensorDescriptor(x)",
     "cudnnDestroyPoolingDescriptor", "done"}

\* C20: a cuDNN call that returns a non-success status is reported on the
\* diagnostic stream and neither unwinds nor aborts: the statement after it
\* runs next.  In max_pool_2d::apply, after a failed cudnnPoolingForward the
\* output is still marked GPU-valid and CPU-invalid although its GPU memory
\* does not hold the pooled input, and apply returns normally: the caller
\* receives no error.
C20_BackendFailureLogged ==
    /\ [][(pc \in CheckedCalls /\ status' \in Statuses \ {Success}) =>
             /\ cerr' = Append(cerr, pc)
             /\ pc' = following(pc)
             /\ ~crash']_vars
    /\ [][(pc = "start_cudnn" /\ status' \in Statuses \ {Success}) =>
             /\ cerr' = Append(cerr, "cudnnCreate")
             /\ pc' = following(pc)
             /\ ~crash']_vars
    /\ [](pc # "unwound")
    /\ []((ForwardFailed /\ pc \in AfterMarks) =>
             (yg.gpu /\ ~yg.cpu /\ yg.data # "pooled"))

\* apply has returned after a cudnnPoolingForward that failed, with every
\* descriptor created and destroyed: one report, y marked valid on the GPU
\* over unspecified contents
C20_Witness ==
    /\ pc = "done" /\ ~crash
    /\ cerr = <<"cudnnPoolingForward">>
    /\ \A d \in Descriptors : desc[d] = "destroyed"
    /\ yg.gpu /\ ~yg.cpu /\ yg.alloc /\ yg.data = "unspecified"

\* The order of the steps of apply(x, y, ...) for a rank below 5.
Invoked == yg.data # "stale"
StepOrder ==
    /\ [](pc = "cudnnPoolingForward" => (xg.gpu /\ xg.alloc /\ yg.alloc /\ ~Invoked))
    /\ [](pc \in {"validate_gpu", "invalidate_cpu"} => Invoked)
    /\ [](pc = "invalidate_cpu" => yg.gpu)
    /\ [][yg'.gpu # yg.gpu => pc = "validate_gpu"]_vars
    /\ [][yg'.cpu # yg.cpu => pc = "invalidate_cpu"]_vars
    /\ [][Invoked' # Invoked => pc = "cudnnPoolingForward"]_vars

\* C24 as stated: the input is made up to date on the GPU and the output is
\* GPU-allocated before the pooling routine is invoked, only after the
\* invocation is the output marked GPU-valid and then CPU-invalid, and the
\* validity flags of the input are not changed by the call.
C24_AsStated ==
    /\ StepOrder
    /\ [][xg'.cpu = xg.cpu /\ xg'.gpu = xg.gpu]_vars

\* C24 amended: the order of the steps is as stated; of the input, the CPU
\* validity is not changed and nothing is invalidated, but the step that makes
\* it up to date on the GPU sets its GPU validity when it was not set.
C24_StepOrder ==
    /\ StepOrder
    /\ [][/\ xg'.cpu = xg.cpu
          /\ xg.gpu => xg'.gpu
          /\ xg' # xg => (pc = "ensure_gpu_up_to_date" /\ xg'.gpu)]_vars

\* apply has returned after a successful pooling: x is valid on both sides,
\* y holds the pooled input, valid on the GPU only
C24_Witness ==
    /\ pc = "done" /\ ~crash /\ cerr = << >>
    /\ xg.cpu /\ xg.gpu /\ xg.alloc
    /\ yg.data = "pooled" /\ yg.gpu /\ ~yg.cpu /\ yg.alloc

\* ================================================ max_pool_2d::apply, overloads
MaxRank == 6      \* largest rank of the input
MaxLead == 2      \* largest extent of a dimension of the input

\* The inputs: create_tensor takes rank 2, 3 and 4.
Ranks == 2..MaxRank
Inputs == UNION {[1..r -> 1..MaxLead] : r \in Ranks}

\* cpp_enable_if((E)): the overload takes part in the resolution when E is a
\* valid constant expression and is true.  valid = FALSE: the substitution
\* fails and the overload is dropped.
cpp_enable_if(valid, value) == valid /\ value

\* apply(const X& x, Y&& y, ...): decay_traits<X>::dimensions() < 5
enabled_direct(r) == cpp_enable_if(TRUE, r < 5)
\* apply(const A& sub, M&& m, ...), deep handling: decay_traits<A>::dimensions > 4.
\* The condition names the member function dimensions without calling it;
\* a function compared with an integer is not a valid expression.
enabled_deep(r) == cpp_enable_if(FALSE, r > 4)

viable(r) ==
    {o \in {"direct"} : enabled_direct(r)} \cup {o \in {"deep"} : enabled_deep(r)}
\* Overload resolution of apply(x, y, ...) for an input of rank r: the two
\* templates have the same signature, so two viable ones are ambiguous.
resolve(r) ==
    IF viable(r) = {} THEN "no matching function"
    ELSE IF viable(r) = {"direct"} THEN "direct"
    ELSE IF viable(r) = {"deep"} THEN "deep"
    ELSE "ambiguous"

\* The nested calls are resolved when the outer one is instantiated: the call
\* compiles when every level does.
RECURSIVE apply_compiles(_)
apply_compiles(dims) ==
    IF resolve(Len(dims)) = "direct" THEN TRUE
    ELSE IF resolve(Len(dims)) = "deep" THEN apply_compiles(Tail(dims))
    ELSE FALSE

\* The slices (index paths over the leading dimensions) the call hands to
\* cudnnPoolingForward: the direct overload pools its input, the deep one is
\* for(i = 0; i < etl::dim<0>(sub); ++i) apply(sub(i), m(i), ...).
RECURSIVE apply_calls(_, _)
RECURSIVE deep_loop(_, _, _)
apply_calls(dims, path) ==
    IF resolve(Len(dims)) = "direct" THEN <<path>>
    ELSE IF resolve(Len(dims)) = "deep" THEN deep_loop(dims, path, 0)
    ELSE << >>
deep_loop(dims, path, i) ==
    IF i >= Head(dims) THEN << >>
    ELSE apply_calls(Tail(dims), Append(path, i)) \o deep_loop(dims, path, i + 1)

DeepInit ==
    /\ xdims \in Inputs /\ overload = "uncalled" /\ pooled = << >>
    /\ ExprIdle /\ RepIdle /\ TraitIdle /\ CudnnIdle /\ SparseIdle /\ ConfigIdle /\ OwnIdle

\* max_pool_2d::apply(x, y, c1, c2, s1, s2, p1, p2)
Apply ==
    /\ overload = "uncalled"
    /\ overload' = resolve(Len(xdims))
    /\ pooled' = IF apply_compiles(xdims) THEN apply_calls(xdims, << >>) ELSE << >>
    /\ UNCHANGED xdims
    /\ UNCHANGED <<exprVars, repVars, traitVars, cudnnVars, sparseVars, configVars, ownVars>>

DeepNext == Apply

DeepSpec == DeepInit /\ [][DeepNext]_vars

\* The rank-4 slices of an input, in increasing order of their index over
\* the leading dimensions.
RECURSIVE Slices(_, _)
RECURSIVE SlicesFrom(_, _, _)
Slices(dims, path) ==
    IF Len(dims) <= 4 THEN <<path>> ELSE SlicesFrom(dims, path, 0)
SlicesFrom(dims, path, i) ==
    IF i >= Head(dims) THEN << >>
    ELSE Slices(Tail(dims), Append(path, i)) \o SlicesFrom(dims, path, i + 1)

\* C21: for an input whose rank exceeds 4, max_pool_2d::apply recurses over
\* the leading dimension: the call resolves to the deep overload, the slices
\* are pooled in increasing order down to rank 4, and cudnnPoolingForward is
\* invoked exactly once per rank-4 slice.
C21_AsStated ==
    (overload # "uncalled" /\ Len(xdims) > 4) =>
        /\ overload = "deep"
        /\ pooled = Slices(xdims, << >>)
        /\ Len(pooled) = mul_all(SubSeq(xdims, 1, Len(xdims) - 4))

\* ============================================================ sparse_matrix
\* The matrix of the tests sparse_matrix/init/2 and sparse_matrix/erase/1:
\* etl::sparse_matrix<Z> a(3, 2, ...).
SmRows == 3
SmCols == 2
MaxValue == 1     \* largest value written to a cell

Cells == (0..(SmRows - 1)) \X (0..(SmCols - 1))
CellValues == 0..MaxValue

\* The stored entries are kept in coordinate format, sorted by row and
\* column: memory (the values), row_index, col_index; nnz is their number.
Before(r1, c1, r2, c2) == r1 < r2 \/ (r1 = r2 /\ c1 < c2)
\* find_n(i, j): the position (from 0) of the first entry not before (i, j)
find_n(m, i, j) ==
    Cardinality({k \in 1..m.nnz : Before(m.row_index[k], m.col_index[k], i, j)})
stored(m, i, j) ==
    LET k == find_n(m, i, j) + 1
    IN k <= m.nnz /\ m.row_index[k] = i /\ m.col_index[k] = j

\* get(i, j): the stored value, zero for a cell without entry
get(m, i, j) ==
    LET k == find_n(m, i, j) + 1
    IN IF k <= m.nnz /\ m.row_index[k] = i /\ m.col_index[k] = j THEN m.memory[k] ELSE 0
\* non_zeros()
non_zeros(m) == m.nnz

InsertAt(q, k, x) == SubSeq(q, 1, k) \o <<x>> \o SubSeq(q, k + 1, Len(q))
RemoveAt(q, k) == SubSeq(q, 1, k) \o SubSeq(q, k + 2, Len(q))

\* erase(i, j): the entry of the cell is removed when there is one
erase(m, i, j) ==
    LET k == find_n(m, i, j)
    IN IF ~stored(m, i, j) THEN m
       ELSE [m EXCEPT !.memory = RemoveAt(@, k), !.row_index = RemoveAt(@, k),
                      !.col_index = RemoveAt(@, k), !.nnz = @ - 1]

\* set(i, j, value): an existing entry is overwritten, or erased when the
\* value is zero; a missing one is inserted when the value is not zero.
\* (a set that stores the zero it is given)
set_keeps_zero(m, i, j, v) ==
    LET k == find_n(m, i, j)
    IN IF stored(m, i, j) THEN [m EXCEPT !.memory[k + 1] = v]
       ELSE [m EXCEPT !.memory = InsertAt(@, k, v), !.row_index = InsertAt(@, k, i),
                      !.col_index = InsertAt(@, k, j), !.nnz = @ + 1]
set(m, i, j, v) ==
    LET k == find_n(m, i, j)
    IN IF stored(m, i, j)
       THEN (IF v # 0 THEN [m EXCEPT !.memory[k + 1] = v] ELSE erase(m, i, j))
       ELSE IF v # 0
       THEN [m EXCEPT !.memory = InsertAt(@, k, v), !.row_index = InsertAt(@, k, i),
                      !.col_index = InsertAt(@, k, j), !.nnz = @ + 1]
       ELSE m

\* a(i, j) = v: the reference returned by operator() writes the value back
\* into the matrix when the statement ends.
reference_assign(m, i, j, v) == set(m, i, j, v)

\* sparse_matrix(rows, columns) and sparse_matrix(rows, columns, list): the
\* non-zero values of the list, in row-major order.
EmptySparse == [rows |-> SmRows, cols |-> SmCols, memory |-> << >>,
                row_index |-> << >>, col_index |-> << >>, nnz |-> 0]
RECURSIVE build_from(_, _, _)
build_from(m, list, k) ==
    IF k >= Len(list) THEN m
    ELSE build_from(set(m, k \div SmCols, k % SmCols, list[k + 1]), list, k + 1)

SparseInit ==
    /\ \E list \in [1..(SmRows * SmCols) -> CellValues] : sm = build_from(EmptySparse, list, 0)
    /\ smop = NoSparseOp
    /\ ExprIdle /\ RepIdle /\ TraitIdle /\ CudnnIdle /\ DeepIdle /\ ConfigIdle /\ OwnIdle

SparseOp(op, i, j, v) == [op |-> op, i |-> i, j |-> j, v |-> v]

Set(i, j, v) ==
    /\ sm' = set(sm, i, j, v)
    /\ smop' = SparseOp("set", i, j, v)
    /\ UNCHANGED <<exprVars, repVars, traitVars, cudnnVars, deepVars, configVars, ownVars>>

ReferenceAssign(i, j, v) ==
    /\ sm' = reference_assign(sm, i, j, v)
    /\ smop' = SparseOp("reference", i, j, v)
    /\ UNCHANGED <<exprVars, repVars, traitVars, cudnnVars, deepVars, configVars, ownVars>>

Erase(i, j) ==
    /\ sm' = erase(sm, i, j)
    /\ smop' = SparseOp("erase", i, j, 0)
    /\ UNCHANGED <<exprVars, repVars, traitVars, cudnnVars, deepVars, configVars, ownVars>>

SparseNext ==
    \/ \E cell \in Cells, v \in CellValues : Set(cell[1], cell[2], v)
    \/ \E cell \in Cells, v \in CellValues : ReferenceAssign(cell[1], cell[2], v)
    \/ \E cell \in Cells : Erase(cell[1], cell[2])

SparseSpec == SparseInit /\ [][SparseNext]_vars

\* C22: after any sequence of set(i,j,v), erase(i,j) and reference
\* assignments a(i,j) = v, non_zeros() is the number of cells whose value is
\* not zero: writing a non-zero value to a zero cell adds one, overwriting a
\* non-zero cell with a non-zero value changes nothing, writing zero to or
\* erasing a non-zero cell removes one, erasing a zero cell changes nothing,
\* the written cell reads the written value and get() of every other cell is
\* unchanged.
NonZeroCells(m) == {cell \in Cells : get(m, cell[1], cell[2]) # 0}
Macros ==
    {"ETL_VECTORIZE_FULL", "ETL_VECTORIZE_EXPR", "ETL_VECTORIZE_IMPL", "ETL_NO_TEMPORARY",
     "ETL_MKL_MODE", "ETL_BLAS_MODE", "ETL_ELEMENT_WISE_MULTIPLICATION", "ETL_STRICT_DIV",
     "ETL_UNROLL_VECT", "ETL_UNROLL_NON_VECT", "__AVX__", "__SSE3__"}

\* #ifdef ETL_VECTORIZE_FULL: ETL_VECTORIZE_EXPR and ETL_VECTORIZE_IMPL are
\* defined when they are not.
vectorize_full(D) ==
    IF "ETL_VECTORIZE_FULL" \in D THEN D \cup {"ETL_VECTORIZE_EXPR", "ETL_VECTORIZE_IMPL"} ELSE D
\* #ifdef ETL_MKL_MODE: ETL_BLAS_MODE is defined when it is not.
mkl_mode(D) == IF "ETL_MKL_MODE" \in D THEN D \cup {"ETL_BLAS_MODE"} ELSE D

\* #ifdef ETL_VECTORIZE_EXPR: vectorize_expr = true, else false
vectorize_expr(D) == "ETL_VECTORIZE_EXPR" \in D
\* #ifdef ETL_VECTORIZE_IMPL: vectorize_impl : std::false_type, else
\* std::true_type
vectorize_impl(D) == IF "ETL_VECTORIZE_IMPL" \in D THEN FALSE ELSE TRUE
\* vector: AVX under __AVX__, else SSE3 under __SSE3__, else NONE
vector(D) == IF "__AVX__" \in D THEN "AVX" ELSE IF "__SSE3__" \in D THEN "SSE3" ELSE "NONE"

\* The declarations of the section, in the order of the file.
config(D) ==
    LET D1 == vectorize_full(D)
        D2 == mkl_mode(D1)
    IN [vectorize_expr |-> vectorize_expr(D1),
        vectorize_impl |-> vectorize_impl(D1),
        create_temporary |-> "ETL_NO_TEMPORARY" \notin D1,
        is_mkl_enabled |-> "ETL_MKL_MODE" \in D1,
        is_cblas_enabled |-> "ETL_BLAS_MODE" \in D2,
        is_element_wise_mul_default |-> "ETL_ELEMENT_WISE_MULTIPLICATION" \in D2,
        is_div_strict |-> "ETL_STRICT_DIV" \in D2,
        unroll_vectorized_loops |-> "ETL_UNROLL_VECT" \in D2,
        unroll_normal_loops |-> "ETL_UNROLL_NON_VECT" \in D2,
        vector |-> vector(D2)]

ConfigInit ==
    /\ defs \in SUBSET Macros /\ cfg = NoConfig
    /\ ExprIdle /\ RepIdle /\ TraitIdle /\ CudnnIdle /\ DeepIdle /\ SparseIdle /\ OwnIdle

\* The section is compiled with the macros of the command line.
Configure ==
    /\ cfg = NoConfig
    /\ cfg' = config(defs)
    /\ UNCHANGED defs
    /\ UNCHANGED <<exprVars, repVars, traitVars, cudnnVars, deepVars, sparseVars, ownVars>>

ConfigNext == Configure

ConfigSpec == ConfigInit /\ [][ConfigNext]_vars

\* C25: the vectorization flags enable what their names say: with
\* ETL_VECTORIZE_IMPL or ETL_VECTORIZE_FULL defined vectorize_impl is true,
\* with ETL_VECTORIZE_EXPR or ETL_VECTORIZE_FULL defined vectorize_expr is
\* true, and with none of the three defined both are false.
C25_AsStated ==
    cfg # NoConfig =>
        LET full == "ETL_VECTORIZE_FULL" \in defs
            expr == "ETL_VECTORIZE_EXPR" \in defs
            impl == "ETL_VECTORIZE_IMPL" \in defs
        IN /\ (impl \/ full) => cfg.vectorize_impl
           /\ (expr \/ full) => cfg.vectorize_expr
           /\ ~(impl \/ expr \/ full) => (~cfg.vectorize_impl /\ ~cfg.vectorize_expr)

\* ========================================= cudnn_wrapper and cudnn_handle
\* The objects that own raw cuDNN resources: cudnn_wrapper<T> holds a
\* descriptor, cudnn_handle the handle of the library.  A raw resource is
\* the number of its creation; raw[r] tells what it is and how many
\* cudnnDestroy* calls were made on it.  cudnn_check only reports the status of
\* a call; the status decides what an object holds only when a creation
\* fails, which leaves the variable the object is built from unwritten.
MaxObjs == 3
\* (the value of a variable that was never written: no raw object, and not
\* known to be null)
Indeterminate == Null - 1
ownRest == <<exprVars, repVars, traitVars, cudnnVars, deepVars, sparseVars, configVars>>

Object(type, val) == [type |-> type, val |-> val, alive |-> TRUE, moved |-> FALSE]
Alive(type) == {o \in DOMAIN objs : objs[o].type = type /\ objs[o].alive}
Released(r) == [raw EXCEPT ![r].destroyed = @ + 1]

\* Builds an object of the given type over the result of a creation call.
Created(type, of, st) ==
    /\ Len(objs) < MaxObjs
    /\ IF st = Success
       THEN /\ raw' = Append(raw, [of |-> of, destroyed |-> 0])
            /\ objs' = Append(objs, Object(type, Len(raw) + 1))
       ELSE /\ raw' = raw
            /\ objs' = Append(objs, Object(type, Indeterminate))
    /\ wild' = wild

\* create_tensor, create_filter, create_pooling_descriptor: the descriptor is
\* created and set, and a cudnn_wrapper is constructed from it.
create_descriptor ==
    /\ \E st \in Statuses : Created("cudnn_wrapper", "descriptor", st)
    /\ UNCHANGED ownRest

\* cudnn_wrapper(cudnn_wrapper&& rhs): the tensor of the new wrapper and the
\* one left in rhs.
\* (a move constructor that leaves rhs as it is)
cudnn_wrapper_move_keeps(tensor) == [tensor |-> tensor, rhs |-> tensor]
cudnn_wrapper_move(tensor) == [tensor |-> tensor, rhs |-> Null]

WrapperMove(s) ==
    /\ s \in Alive("cudnn_wrapper")
    /\ Len(objs) < MaxObjs
    /\ LET m == cudnn_wrapper_move(objs[s].val)
       IN objs' = Append([objs EXCEPT ![s].val = m.rhs, ![s].moved = TRUE],
                         Object("cudnn_wrapper", m.tensor))
    /\ UNCHANGED <<raw, wild>>
    /\ UNCHANGED ownRest

\* ~cudnn_wrapper(): if(tensor) cudnnDestroy*Descriptor(tensor).  The test of
\* a tensor that was never written can go either way.
WrapperDestruct(o) ==
    /\ o \in Alive("cudnn_wrapper")
    /\ objs' = [objs EXCEPT ![o].alive = FALSE]
    /\ LET tensor == objs[o].val
       IN IF tensor = Null THEN UNCHANGED <<raw, wild>>
          ELSE IF tensor = Indeterminate THEN raw' = raw /\ wild' \in {wild, TRUE}
          ELSE raw' = Released(tensor) /\ wild' = wild
    /\ UNCHANGED ownRest

\* cudnn_handle(): cudnn_check(cudnnCreate(&handle)).
HandleCreate ==
    /\ \E st \in Statuses : Created("cudnn_handle", "handle", st)
    /\ UNCHANGED ownRest

\* cudnn_handle(cudnn_handle&& rhs) noexcept = default and the defaulted move
\* assignment: the handle of the target and the one left in rhs.
cudnn_handle_move(h) == [handle |-> h, rhs |-> h]

HandleMove(s) ==
    /\ s \in Alive("cudnn_handle")
    /\ Len(objs) < MaxObjs
    /\ LET m == cudnn_handle_move(objs[s].val)
       IN objs' = Append([objs EXCEPT ![s].val = m.rhs, ![s].moved = TRUE],
                         Object("cudnn_handle", m.handle))
    /\ UNCHANGED <<raw, wild>>
    /\ UNCHANGED ownRest

HandleMoveAssign(d, s) ==
    /\ d \in Alive("cudnn_handle") /\ s \in Alive("cudnn_handle") /\ d # s
    /\ LET m == cudnn_handle_move(objs[s].val)
       IN objs' = [objs EXCEPT ![s].val = m.rhs, ![s].moved = TRUE, ![d].val = m.handle]
    /\ UNCHANGED <<raw, wild>>
    /\ UNCHANGED ownRest

\* ~cudnn_handle(): cudnn_check(cudnnDestroy(handle)).
HandleDestruct(o) ==
    /\ o \in Alive("cudnn_handle")
    /\ objs' = [objs EXCEPT ![o].alive = FALSE]
    /\ LET h == objs[o].val
       IN IF h = Indeterminate THEN raw' = raw /\ wild' = TRUE
          ELSE raw' = Released(h) /\ wild' = wild
    /\ UNCHANGED ownRest

OwnInit ==
    /\ OwnIdle
    /\ ExprIdle /\ RepIdle /\ TraitIdle /\ CudnnIdle
    /\ DeepIdle /\ SparseIdle /\ ConfigIdle

OwnNext ==
    \/ create_descriptor
    \/ \E s \in 1..MaxObjs : WrapperMove(s)
    \/ \E o \in 1..MaxObjs : WrapperDestruct(o)
    \/ HandleCreate
    \/ \E s \in 1..MaxObjs : HandleMove(s)
    \/ \E d \in 1..MaxObjs, s \in 1..MaxObjs : HandleMoveAssign(d, s)
    \/ \E o \in 1..MaxObjs : HandleDestruct(o)

OwnSpec == OwnInit /\ [][OwnNext]_vars

RawOf(of) == {r \in DOMAIN raw : raw[r].of = of}
Holders(type, r) == {o \in DOMAIN objs : objs[o].type = type /\ objs[o].val = r}

\* C29: every descriptor held by a cudnn_wrapper is destroyed exactly once:
\* a moved-from wrapper holds a null descriptor, so that every descriptor
\* has one wrapper holding it, the last of its chain of moves, and the
\* descriptor has no cudnnDestroy*Descriptor call while that wrapper lives and
\* one call when it is destructed, whatever wrappers of the chain were
\* destructed before or after.
C29_DestroyedOnce ==
    /\ \A o \in DOMAIN objs :
          (objs[o].type = "cudnn_wrapper" /\ objs[o].moved) => objs[o].val = Null
    /\ \A r \in RawOf("descriptor") :
          /\ Cardinality(Holders("cudnn_wrapper", r)) = 1
          /\ \A o \in Holders("cudnn_wrapper", r) :
                raw[r].destroyed = IF objs[o].alive THEN 0 ELSE 1

\* a descriptor moved twice, all three wrappers destructed: one call
C29_Witness ==
    /\ Len(objs) = 3 /\ \A o \in DOMAIN objs : objs[o].type = "cudnn_wrapper" /\ ~objs[o].alive
    /\ objs[1].moved /\ objs[2].moved /\ ~objs[3].moved
    /\ Len(raw) = 1 /\ objs[3].val = 1 /\ raw[1].destroyed = 1

\* C30 as stated: every raw handle owned by a cudnn_handle is destroyed at
\* most once, also after a cudnn_handle was move-constructed or move-assigned
\* from another and both objects were destructed.
C30_AsStated ==
    \A r \in RawOf("handle") : raw[r].destroyed <= 1

====
